---- MODULE Spec2Model ----
(***************************************************************************)
(* Model of the reddit-summarizer URL/token core:                          *)
(*   - getRedditAccessToken and its process-wide cachedAccessToken         *)
(*     (src/app/api/summarize/route.ts:166-217), run by concurrent callers *)
(*     that interleave at the awaits of the async function;                *)
(*   - resolveShareUrlIfNeeded and normalizeRedditUrl with their helpers   *)
(*     (route.ts:240-373), on strings modelled as sequences of characters. *)
(* Time is in milliseconds as Date.now() reports it.                       *)
(***************************************************************************)
EXTENDS Integers, Sequences, FiniteSets, TLC

VARIABLES
    env,                \* process.env: REDDIT_CLIENT_ID, REDDIT_CLIENT_SECRET
    clock,              \* what Date.now() returns
    cachedAccessToken,  \* route.ts:175, Null or [token, expiresAt]
    cachedJson,         \* the tokenJson cachedAccessToken was assigned from, or Null
    pc,                 \* per caller: where its getRedditAccessToken call is suspended
    now,                \* per caller: the local `now` of route.ts:185
    status,             \* per caller: tokenResponse.status once fetch has resolved
    tokenJson,          \* per caller: the local `tokenJson` of route.ts:205
    outcome,            \* per caller: what the call returned or threw
    requests,           \* per caller: token requests the current call has issued
    changed,            \* per caller: whether a step of the current call assigned the cache
    order,              \* callers whose result is pending, in the order their calls ended
    givenUrl,                \* the text given to resolveShareUrlIfNeeded and normalizeRedditUrl
    rpc,                \* where the resolveShareUrlIfNeeded call is
    fetchCalls,         \* the probe requests issued, as the mocked fetch records them
    response,           \* the answer to the probe
    resolvedShareUrl,           \* what resolveShareUrlIfNeeded returned or threw
    jsonUrl,         \* normalizeRedditUrl(givenUrl)
    jsonUrlAgain,       \* normalizeRedditUrl(normalizeRedditUrl(givenUrl))
    fetchUrl,           \* per caller: the `url` argument of its fetchRedditJson call
    apiFetch,           \* per caller: the request fetchRedditJson passed to fetch (route.ts:237)
    fetched,            \* per caller: what its fetchRedditJson call returned or threw
    threadFetch,        \* the request POST passed to fetch for the thread (route.ts:25)
    steps               \* the steps POST has taken, in order

tokenVars == <<env, clock, cachedAccessToken, cachedJson, pc, now, status, tokenJson, outcome,
               requests, changed, order>>

urlVars == <<givenUrl, rpc, fetchCalls, response, resolvedShareUrl, jsonUrl, jsonUrlAgain>>

fetchVars == <<fetchUrl, apiFetch, fetched>>

postVars == <<threadFetch, steps>>

vars == <<tokenVars, urlVars, fetchVars, postVars>>

----------------------------------------------------------------------------
(* Bounds of the model *)

\* Date.now() advances at most this many ticks.
MaxTicks == 2


\* Callers that may run getRedditAccessToken concurrently (request handlers).
Callers == {"a", "b"}

----------------------------------------------------------------------------
(* Values *)

Null == [null |-> TRUE]

\* An absent environment variable (process.env.X is undefined).
Undefined == "<undefined>"

\* The states of process.env: both secrets set, the id absent, the secret set to
\* the empty string, and both absent.
EnvStates ==
    {[clientId |-> "test-client", clientSecret |-> "test-secret"],
     [clientId |-> Undefined, clientSecret |-> "test-secret"],
     [clientId |-> "test-client", clientSecret |-> ""],
     [clientId |-> Undefined, clientSecret |-> Undefined]}

\* access_token values the authorization endpoint may send.
Tokens == {"tokA", "tokB"}

\* expires_in values (seconds) the authorization endpoint may send.
Lifetimes == {30, 120, 150, 3600}

\* HTTP statuses of the token response.
TokenStatuses == {200, 401}

\* An optional JSON field is <<>> when absent and <<v>> when present.
\* Bodies of a token response: not JSON at all, the JSON value null, or an object.
NotJson == [kind |-> "notjson"]
JsonNull == [kind |-> "null"]
JsonObjects ==
    [kind : {"object"},
     access_token : {<<>>, <<"">>} \cup {<<t>> : t \in Tokens},
     expires_in : {<<>>} \cup {<<l>> : l \in Lifetimes}]
TokenBodies == {NotJson, JsonNull} \cup JsonObjects

Idle == [kind |-> "none"]
\* No request has been passed to fetch, no argument has been given.
NoCall == <<>>
Return(t) == [kind |-> "return", token |-> t]
Throw(e) == [kind |-> "throw", error |-> e]

Max(a, b) == IF a > b THEN a ELSE b

----------------------------------------------------------------------------
(* getRedditAccessToken, route.ts:177-217 *)

\* JavaScript `!v` for a string-or-undefined value.
Falsy(v) == v = Undefined \/ v = ""

\* route.ts:181
MissingCredentials(e) == Falsy(e.clientId) \/ Falsy(e.clientSecret)

\* The reuse margin of route.ts:186, in milliseconds.
ReuseMarginMs == 60000

\* The early-refresh margin of route.ts:210, in seconds.
EarlyRefreshSeconds == 60

\* route.ts:213
MsPerSecond == 1000

\* Milliseconds one tick of the clock advances: half the reuse margin.
TickMs == ReuseMarginMs \div 2

IsReusableWideMargin(c, n) == c # Null /\ c.expiresAt > n + 2 * ReuseMarginMs

\* route.ts:186
IsReusable(c, n) == c # Null /\ c.expiresAt > n + ReuseMarginMs

EntryDecisionCacheFirst(e, c, n) ==
    IF IsReusable(c, n) THEN "hit"
    ELSE IF MissingCredentials(e) THEN "throw"
    ELSE "fetch"

\* route.ts:181-190: what the synchronous head of the call does
EntryDecision(e, c, n) ==
    IF MissingCredentials(e) THEN "throw"
    ELSE IF IsReusable(c, n) THEN "hit"
    ELSE "fetch"

OkBelow500(s) == s >= 200 /\ s < 500

\* route.ts:200, tokenResponse.ok
Ok(s) == s >= 200 /\ s <= 299

\* `tokenJson.expires_in ?? 0`
ExpiresIn(j) == IF j.expires_in = <<>> THEN 0 ELSE j.expires_in[1]

ExpiresInSecondsNoMargin(j) == Max(ExpiresIn(j), 0)

\* route.ts:210
ExpiresInSeconds(j) == Max(ExpiresIn(j) - EarlyRefreshSeconds, 0)

NewCachedTokenWholeLifetime(j, n) ==
    [token |-> j.access_token[1], expiresAt |-> n + Max(ExpiresIn(j), 0) * MsPerSecond]

\* route.ts:211-214, the object literal
NewCachedToken(j, n) ==
    [token |-> j.access_token[1], expiresAt |-> n + ExpiresInSeconds(j) * MsPerSecond]

AssignIfAbsent(old, new) == IF old = Null THEN new ELSE old

\* route.ts:211, the assignment: the new object replaces the old one
Assign(old, new) == new

\* route.ts:205-208: what the body of an ok response leads to
BodyOutcome(j) ==
    IF j.kind = "notjson" THEN "SyntaxError"
    ELSE IF j.kind = "null" THEN "TypeError"
    ELSE IF j.access_token = <<>> \/ Falsy(j.access_token[1]) THEN "MissingAccessToken"
    ELSE "store"

\* Bookkeeping every step of caller p does: the call's result, its request count,
\* whether it assigned the cache, and the order in which calls ended.
Finish(p, o) ==
    /\ pc' = [pc EXCEPT ![p] = "done"]
    /\ outcome' = [outcome EXCEPT ![p] = o]
    /\ order' = Append(order, p)

Observe(p) ==
    changed' = [changed EXCEPT ![p] = changed[p] \/ cachedAccessToken' # cachedAccessToken]

\* route.ts:177-198: the call up to its first await
getRedditAccessToken(p) ==
    /\ pc[p] = "idle"
    /\ LET d == EntryDecision(env, cachedAccessToken, clock) IN
       /\ CASE d = "throw" ->
                 /\ Finish(p, Throw("MissingCredentials"))
                 /\ UNCHANGED <<requests, now>>
            [] d = "hit" ->
                 /\ Finish(p, Return(cachedAccessToken.token))
                 /\ now' = [now EXCEPT ![p] = clock]
                 /\ UNCHANGED requests
            [] d = "fetch" ->
                 /\ pc' = [pc EXCEPT ![p] = "awaitFetch"]
                 /\ now' = [now EXCEPT ![p] = clock]
                 /\ requests' = [requests EXCEPT ![p] = requests[p] + 1]
                 /\ UNCHANGED <<outcome, order>>
    /\ UNCHANGED <<env, clock, cachedAccessToken, cachedJson, status, tokenJson>>
    /\ Observe(p)

\* getRedditAccessToken is called on its own.
Call(p) ==
    /\ getRedditAccessToken(p)
    /\ UNCHANGED <<urlVars, fetchVars, postVars>>

\* route.ts:190-198: fetch rejects (network failure); the error propagates
FetchRejects(p) ==
    /\ pc[p] = "awaitFetch"
    /\ Finish(p, Throw("FetchRejected"))
    /\ UNCHANGED <<env, clock, cachedAccessToken, cachedJson, now, status, tokenJson, requests>>
    /\ Observe(p)
    /\ UNCHANGED <<urlVars, fetchVars, postVars>>

\* route.ts:190-205: fetch resolves with the response's status; the body is awaited
FetchResolves(p) ==
    /\ pc[p] = "awaitFetch"
    /\ \E s \in TokenStatuses :
        /\ status' = [status EXCEPT ![p] = s]
        /\ pc' = [pc EXCEPT ![p] = IF Ok(s) THEN "awaitJson" ELSE "awaitText"]
    /\ UNCHANGED <<env, clock, cachedAccessToken, cachedJson, now, tokenJson, outcome, requests, order>>
    /\ Observe(p)
    /\ UNCHANGED <<urlVars, fetchVars, postVars>>

\* route.ts:201-202: the error body has been read
TextResolves(p) ==
    /\ pc[p] = "awaitText"
    /\ Finish(p, Throw("TokenRequestFailed"))
    /\ UNCHANGED <<env, clock, cachedAccessToken, cachedJson, now, status, tokenJson, requests>>
    /\ Observe(p)
    /\ UNCHANGED <<urlVars, fetchVars, postVars>>

\* route.ts:205-216: the body has been read and parsed
JsonResolves(p) ==
    /\ pc[p] = "awaitJson"
    /\ \E j \in TokenBodies :
        LET b == BodyOutcome(j) IN
        /\ tokenJson' = [tokenJson EXCEPT ![p] = IF b = "SyntaxError" THEN Null ELSE j]
        /\ IF b = "store"
           THEN /\ cachedAccessToken' = Assign(cachedAccessToken, NewCachedToken(j, now[p]))
                /\ cachedJson' = Assign(cachedJson, j)
                /\ Finish(p, Return(j.access_token[1]))
           ELSE /\ Finish(p, Throw(b))
                /\ UNCHANGED <<cachedAccessToken, cachedJson>>
    /\ UNCHANGED <<env, clock, now, status, requests>>
    /\ Observe(p)
    /\ UNCHANGED <<urlVars, fetchVars, postVars>>

\* The locals of p's ended call are gone; its next call starts afresh.
Forget(p) ==
    /\ pc' = [pc EXCEPT ![p] = "idle"]
    /\ now' = [now EXCEPT ![p] = 0]
    /\ status' = [status EXCEPT ![p] = 0]
    /\ tokenJson' = [tokenJson EXCEPT ![p] = Null]
    /\ outcome' = [outcome EXCEPT ![p] = Idle]
    /\ requests' = [requests EXCEPT ![p] = 0]
    /\ changed' = [changed EXCEPT ![p] = FALSE]
    /\ order' = SelectSeq(order, LAMBDA q : q # p)

\* The awaiting caller takes the result.
Settle(p) ==
    /\ pc[p] = "done"
    /\ Forget(p)
    /\ UNCHANGED <<env, clock, cachedAccessToken, cachedJson, urlVars, fetchVars, postVars>>

\* Date.now() advances.
Tick ==
    /\ clock < MaxTicks * TickMs
    /\ clock' = clock + TickMs
    /\ UNCHANGED <<env, cachedAccessToken, cachedJson, pc, now, status, tokenJson, outcome,
                   requests, changed, order, urlVars, fetchVars, postVars>>

\* process.env is assigned (reddit.test.ts:57-61 does so before each test).
SetEnv ==
    /\ \E e \in EnvStates \ {env} : env' = e
    /\ UNCHANGED <<clock, cachedAccessToken, cachedJson, pc, now, status, tokenJson, outcome,
                   requests, changed, order, urlVars, fetchVars, postVars>>

InitToken ==
    /\ env \in EnvStates
    /\ clock = 0
    /\ cachedAccessToken = Null
    /\ cachedJson = Null
    /\ pc = [p \in Callers |-> "idle"]
    /\ now = [p \in Callers |-> 0]
    /\ status = [p \in Callers |-> 0]
    /\ tokenJson = [p \in Callers |-> Null]
    /\ outcome = [p \in Callers |-> Idle]
    /\ requests = [p \in Callers |-> 0]
    /\ changed = [p \in Callers |-> FALSE]
    /\ order = <<>>
    /\ fetchUrl = [p \in Callers |-> NoCall]
    /\ apiFetch = [p \in Callers |-> NoCall]
    /\ fetched = [p \in Callers |-> Idle]
    /\ threadFetch = NoCall
    /\ steps = <<>>

\* No URL is being handled.
Init ==
    /\ InitToken
    /\ givenUrl = <<>>
    /\ rpc = "off"
    /\ fetchCalls = <<>>
    /\ response = [kind |-> "none"]
    /\ resolvedShareUrl = [kind |-> "pending"]
    /\ jsonUrl = [kind |-> "pending"]
    /\ jsonUrlAgain = [kind |-> "pending"]

Next ==
    \/ \E p \in Callers : Call(p)
    \/ \E p \in Callers : FetchRejects(p)
    \/ \E p \in Callers : FetchResolves(p)
    \/ \E p \in Callers : TextResolves(p)
    \/ \E p \in Callers : JsonResolves(p)
    \/ \E p \in Callers : Settle(p)
    \/ Tick
    \/ SetEnv

Spec == Init /\ [][Next]_vars

----------------------------------------------------------------------------
(* Strings are sequences of characters; a character is a one-letter string.   *)
(* "U+FFFD" stands for the replacement character a UTF-8 decoder emits for a  *)
(* byte that is no ASCII, "CTL" for an ASCII control character and "U+0060"   *)
(* for the grave accent.                                                      *)

\* An optional string (string | null) is <<>> for null and <<s>> for the string s.
NoString == <<>>
Some(s) == <<s>>

\* JavaScript truthiness of a string-or-null: neither null nor the empty string.
Truthy(o) == o # NoString /\ o[1] # <<>>

\* String.prototype.startsWith
StartsWith(s, p) == Len(s) >= Len(p) /\ SubSeq(s, 1, Len(p)) = p

\* String.prototype.endsWith
EndsWith(s, p) == Len(s) >= Len(p) /\ SubSeq(s, Len(s) - Len(p) + 1, Len(s)) = p

\* Array.prototype.indexOf / String.prototype.indexOf, 1-based, 0 when absent
IndexOf(s, c) ==
    IF \E i \in 1..Len(s) : s[i] = c
    THEN CHOOSE i \in 1..Len(s) : s[i] = c /\ \A j \in 1..(i - 1) : s[j] # c
    ELSE 0

\* The first position of s that holds one of the characters in cs, Len(s) + 1 if none.
FirstOf(s, cs) ==
    IF \E i \in 1..Len(s) : s[i] \in cs
    THEN CHOOSE i \in 1..Len(s) : s[i] \in cs /\ \A j \in 1..(i - 1) : s[j] \notin cs
    ELSE Len(s) + 1

\* s.split(c)[0]
BeforeFirst(s, c) == SubSeq(s, 1, FirstOf(s, {c}) - 1)

\* The rest of s from its first c on (c included), empty when c is absent.
FromFirst(s, c) == SubSeq(s, FirstOf(s, {c}), Len(s))

\* The rest of s after its first c, empty when c is absent.
AfterFirst(s, c) == SubSeq(s, FirstOf(s, {c}) + 1, Len(s))

\* String.prototype.split on a one-character separator
RECURSIVE Split(_, _)
Split(s, c) ==
    IF FirstOf(s, {c}) > Len(s) THEN <<s>>
    ELSE <<BeforeFirst(s, c)>> \o Split(AfterFirst(s, c), c)

\* Array.prototype.join with a one-character separator
RECURSIVE Join(_, _)
Join(parts, c) ==
    IF parts = <<>> THEN <<>>
    ELSE IF Len(parts) = 1 THEN parts[1]
    ELSE parts[1] \o <<c>> \o Join(Tail(parts), c)

\* String.prototype.trim, with the space as the only whitespace of the model
RECURSIVE TrimStart(_)
TrimStart(s) == IF s # <<>> /\ s[1] = " " THEN TrimStart(Tail(s)) ELSE s

RECURSIVE TrimEnd(_)
TrimEnd(s) ==
    IF s # <<>> /\ s[Len(s)] = " " THEN TrimEnd(SubSeq(s, 1, Len(s) - 1)) ELSE s

Trim(s) == TrimEnd(TrimStart(s))

\* s.replace(/\/$/, '')
StripTrailingSlash(s) ==
    IF s # <<>> /\ s[Len(s)] = "/" THEN SubSeq(s, 1, Len(s) - 1) ELSE s

DotJson == <<".", "j", "s", "o", "n">>

\* s.replace(/\.json$/, '')
StripDotJson(s) ==
    IF EndsWith(s, DotJson) THEN SubSeq(s, 1, Len(s) - Len(DotJson)) ELSE s

\* a || b on strings
OrString(a, b) == IF a = <<>> THEN b ELSE a

\* Concatenation of a sequence of strings.
RECURSIVE Concat(_)
Concat(parts) == IF parts = <<>> THEN <<>> ELSE parts[1] \o Concat(Tail(parts))

----------------------------------------------------------------------------
(* Bytes, UTF-8 and base64 as node:buffer does them *)

\* The printable ASCII characters, codes 32 to 126.
Ascii == <<" ", "!", "\"", "#", "$", "%", "&", "'", "(", ")", "*", "+", ",", "-", ".", "/", "0", "1", "2", "3", "4", "5", "6", "7", "8", "9", ":", ";", "<", "=", ">", "?", "@", "A", "B", "C", "D", "E", "F", "G", "H", "I", "J", "K", "L", "M", "N", "O", "P", "Q", "R", "S", "T", "U", "V", "W", "X", "Y", "Z", "[", "\\", "]", "^", "_", "U+0060", "a", "b", "c", "d", "e", "f", "g", "h", "i", "j", "k", "l", "m", "n", "o", "p", "q", "r", "s", "t", "u", "v", "w", "x", "y", "z", "{", "|", "}", "~">>

\* Buffer.from(text): the UTF-8 bytes of a text of printable ASCII characters
ByteOf(c) == 31 + IndexOf(Ascii, c)

BytesOf(text) == [i \in 1..Len(text) |-> ByteOf(text[i])]

\* buffer.toString('utf-8'), byte by byte: ASCII is kept, any other byte is replaced
\* (a valid multi-byte sequence is not reassembled: the model's texts are ASCII)
CharOf(b) ==
    IF b >= 32 /\ b <= 126 THEN Ascii[b - 31]
    ELSE IF b >= 128 THEN "U+FFFD"
    ELSE "CTL"

TextOf(bytes) == [i \in 1..Len(bytes) |-> CharOf(bytes[i])]

Base64Alphabet == <<"A", "B", "C", "D", "E", "F", "G", "H", "I", "J", "K", "L", "M", "N", "O", "P", "Q", "R", "S", "T", "U", "V", "W", "X", "Y", "Z", "a", "b", "c", "d", "e", "f", "g", "h", "i", "j", "k", "l", "m", "n", "o", "p", "q", "r", "s", "t", "u", "v", "w", "x", "y", "z", "0", "1", "2", "3", "4", "5", "6", "7", "8", "9", "+", "/">>

\* node's unbase64 table: both alphabets are accepted, -1 marks an illegal character
Unbase64(c) ==
    IF c = "-" THEN 62
    ELSE IF c = "_" THEN 63
    ELSE IndexOf(Base64Alphabet, c) - 1

\* The 6-bit values node's decoder reads: illegal characters are skipped and the
\* first "=" ends the input.
RECURSIVE Sextets(_)
Sextets(s) ==
    IF s = <<>> \/ s[1] = "=" THEN <<>>
    ELSE IF Unbase64(s[1]) < 0 THEN Sextets(Tail(s))
    ELSE <<Unbase64(s[1])>> \o Sextets(Tail(s))

\* Four 6-bit values make three bytes; a rest of two makes one byte, of three two.
RECURSIVE BytesOfSextets(_)
BytesOfSextets(x) ==
    IF Len(x) < 2 THEN <<>>
    ELSE IF Len(x) = 2 THEN <<x[1] * 4 + x[2] \div 16>>
    ELSE IF Len(x) = 3
         THEN <<x[1] * 4 + x[2] \div 16, (x[2] % 16) * 16 + x[3] \div 4>>
    ELSE <<x[1] * 4 + x[2] \div 16, (x[2] % 16) * 16 + x[3] \div 4, (x[3] % 4) * 64 + x[4]>>
         \o BytesOfSextets(SubSeq(x, 5, Len(x)))

\* Buffer.from(s, 'base64').toString('utf-8')
Base64DecodeToText(s) == TextOf(BytesOfSextets(Sextets(s)))

\* The 6-bit values of a byte sequence (the last group filled with zero bits).
RECURSIVE SextetsOfBytes(_)
SextetsOfBytes(b) ==
    IF b = <<>> THEN <<>>
    ELSE IF Len(b) = 1 THEN <<b[1] \div 4, (b[1] % 4) * 16>>
    ELSE IF Len(b) = 2
         THEN <<b[1] \div 4, (b[1] % 4) * 16 + b[2] \div 16, (b[2] % 16) * 4>>
    ELSE <<b[1] \div 4, (b[1] % 4) * 16 + b[2] \div 16, (b[2] % 16) * 4 + b[3] \div 64,
           b[3] % 64>>
         \o SextetsOfBytes(SubSeq(b, 4, Len(b)))

\* buffer.toString('base64') without the padding
Base64Chars(x) == [i \in 1..Len(x) |-> Base64Alphabet[x[i] + 1]]

\* reddit.test.ts:33-34: .replace(/\+/g, '-').replace(/\//g, '_')
UrlSafe(std) ==
    [i \in 1..Len(std) |->
        IF std[i] = "+" THEN "-" ELSE IF std[i] = "/" THEN "_" ELSE std[i]]

\* reddit.test.ts:31-35: Buffer.from(text).toString('base64') made URL-safe, padding
\* removed
Base64UrlEncode(text) == UrlSafe(Base64Chars(SextetsOfBytes(BytesOf(text))))

\* reddit.test.ts:43: JSON.stringify({ [key]: value }) for a value without quotes,
\* backslashes or control characters
JsonStringify(key, value) == Concat(<<<<"{", "\"">>, key, <<"\"", ":", "\"">>, value, <<"\"", "}">>>>)

\* The members of a flat JSON object text {"k":"v",...} whose keys and values are
\* strings without escapes: a sequence of <<key, value>>, or <<>> when the text is
\* not of that form. JsonMembers reads a text that starts after "{" or ",",
\* JsonAfterKey the text r1 from the quote that closes the key k, JsonAfterValue the
\* text r2 from the quote that closes the value v.
RECURSIVE JsonMembers(_)
RECURSIVE JsonAfterKey(_, _)
RECURSIVE JsonAfterValue(_, _, _)

JsonPrepend(member, rest) == IF rest = <<>> THEN <<>> ELSE <<member>> \o rest

JsonAfterValue(k, v, r2) ==
    IF r2 = <<"\"", "}">> THEN <<<<k, v>>>>
    ELSE IF StartsWith(r2, <<"\"", ",">>) THEN JsonPrepend(<<k, v>>, JsonMembers(SubSeq(r2, 3, Len(r2))))
    ELSE <<>>

JsonAfterKey(k, r1) ==
    IF ~StartsWith(r1, <<"\"", ":", "\"">>) THEN <<>>
    ELSE JsonAfterValue(k, BeforeFirst(SubSeq(r1, 4, Len(r1)), "\""),
                        FromFirst(SubSeq(r1, 4, Len(r1)), "\""))

JsonMembers(s) ==
    IF s = <<>> \/ s[1] # "\"" THEN <<>>
    ELSE JsonAfterKey(BeforeFirst(Tail(s), "\""), FromFirst(Tail(s), "\""))

\* The value of the last member of ms named key, null when there is none.
JsonField(ms, key) ==
    IF \E i \in 1..Len(ms) : ms[i][1] = key
    THEN Some(ms[CHOOSE i \in 1..Len(ms) :
                    ms[i][1] = key /\ \A j \in (i + 1)..Len(ms) : ms[j][1] # key][2])
    ELSE NoString

\* route.ts:293-301: JSON.parse(text) and the lookup of a string field, null when
\* the text is no such object or has no such member
JsonStringField(text, key) ==
    IF text = <<>> \/ text[1] # "{" THEN NoString
    ELSE JsonField(JsonMembers(Tail(text)), key)

----------------------------------------------------------------------------
(* The URL class (WHATWG URL) for http and https URLs without credentials, as  *)
(* far as the functions below use it: parsing with and without a base, origin, *)
(* pathname and href.                                                          *)

Digits == {"0", "1", "2", "3", "4", "5", "6", "7", "8", "9"}

\* Characters a host may not contain (forbidden host code points, and what the
\* model has no domain mapping for).
ForbiddenInHost ==
    {" ", "#", "/", ":", "<", ">", "?", "@", "[", "\\", "]", "^", "|", "%", "CTL", "U+FFFD"}

\* The percent-encoding of a character the parser does not keep in a path.
PathEscape(c) ==
    CASE c = " " -> <<"%", "2", "0">>
      [] c = "\"" -> <<"%", "2", "2">>
      [] c = "<" -> <<"%", "3", "C">>
      [] c = ">" -> <<"%", "3", "E">>
      [] c = "U+0060" -> <<"%", "6", "0">>
      [] c = "{" -> <<"%", "7", "B">>
      [] c = "}" -> <<"%", "7", "D">>
      [] c = "U+FFFD" -> <<"%", "E", "F", "%", "B", "F", "%", "B", "D">>
      [] c = "CTL" -> <<"%", "1", "F">>
      [] OTHER -> <<c>>

\* In a query the parser keeps ` { } and escapes ' as well.
QueryEscape(c) ==
    CASE c \in {"U+0060", "{", "}"} -> <<c>>
      [] c = "'" -> <<"%", "2", "7">>
      [] OTHER -> PathEscape(c)

\* In a fragment the parser keeps { } as well.
FragmentEscape(c) == IF c \in {"{", "}"} THEN <<c>> ELSE PathEscape(c)

RECURSIVE EscapePath(_)
EscapePath(s) == IF s = <<>> THEN <<>> ELSE PathEscape(s[1]) \o EscapePath(Tail(s))

RECURSIVE EscapeQuery(_)
EscapeQuery(s) == IF s = <<>> THEN <<>> ELSE QueryEscape(s[1]) \o EscapeQuery(Tail(s))

RECURSIVE EscapeFragment(_)
EscapeFragment(s) ==
    IF s = <<>> THEN <<>> ELSE FragmentEscape(s[1]) \o EscapeFragment(Tail(s))

\* s without its last element (s itself when empty).
Front(s) == SubSeq(s, 1, Len(s) - 1)

\* done, with an empty segment added when the segment read was the last one.
Closed(done, last) == IF last THEN Append(done, <<>>) ELSE done

\* The path state of the parser on the segments of a path: "." is dropped, ".."
\* removes the segment before it, and either leaves an empty segment when last.
RECURSIVE PathSegments(_, _)
PathSegments(todo, done) ==
    IF todo = <<>> THEN done
    ELSE IF todo[1] = <<".", ".">> THEN PathSegments(Tail(todo), Closed(Front(done), Len(todo) = 1))
    ELSE IF todo[1] = <<".">> THEN PathSegments(Tail(todo), Closed(done, Len(todo) = 1))
    ELSE PathSegments(Tail(todo), Append(done, EscapePath(todo[1])))

\* A backslash is a slash in the path of an http(s) URL.
Slashes(s) == [i \in 1..Len(s) |-> IF s[i] = "\\" THEN "/" ELSE s[i]]

\* The pathname of a sequence of segments.
JoinPath(out) == IF out = <<>> THEN <<"/">> ELSE <<"/">> \o Join(out, "/")

\* The pathname the parser makes of the path text p (which starts with a slash, or
\* is empty) on top of the segments `under` of a base path.
Pathname(p, under) ==
    JoinPath(PathSegments(IF p = <<>> THEN <<>> ELSE Tail(Split(Slashes(p), "/")), under))

FailedUrl == [ok |-> FALSE]

\* url.search and url.hash of the text from "?" or "#" on, null when it is empty.
SearchOf(queryPart) ==
    IF queryPart = <<>> THEN NoString ELSE Some(EscapeQuery(Tail(queryPart)))

HashOf(hashPart) ==
    IF hashPart = <<>> THEN NoString ELSE Some(EscapeFragment(Tail(hashPart)))

\* What follows the authority: pathname, search and hash of the text `rest`, which
\* starts with "/", "\", "?" or "#", or is empty.
Tail3(rest, under) ==
    [pathname |-> Pathname(BeforeFirst(BeforeFirst(rest, "#"), "?"), under),
     search |-> SearchOf(FromFirst(BeforeFirst(rest, "#"), "?")),
     hash |-> HashOf(FromFirst(rest, "#"))]

\* s without its leading slashes and backslashes.
RECURSIVE SkipSlashes(_)
SkipSlashes(s) ==
    IF s # <<>> /\ s[1] \in {"/", "\\"} THEN SkipSlashes(Tail(s)) ELSE s

\* The characters that end the authority.
AuthorityEnd == {"/", "\\", "?", "#"}

\* The scheme's default port.
DefaultPort(protocol) == IF protocol = <<"h", "t", "t", "p", "s", ":">> THEN <<"4", "4", "3">> ELSE <<"8", "0">>

\* The URL of a host, a port and the text after the authority. Fails on an empty or
\* forbidden host and on a port that is no number; the default port is dropped.
HostPort(protocol, host, port, rest) ==
    IF host = <<>> \/ (\E i \in 1..Len(host) : host[i] \in ForbiddenInHost)
       \/ (\E i \in 1..Len(port) : port[i] \notin Digits)
    THEN FailedUrl
    ELSE [ok |-> TRUE, protocol |-> protocol, host |-> host,
          port |-> IF port = DefaultPort(protocol) THEN <<>> ELSE port]
         @@ Tail3(rest, <<>>)

\* The text up to the end of the authority.
AuthorityOf(s) == SubSeq(s, 1, FirstOf(s, AuthorityEnd) - 1)

\* Authority and what follows it, for the scheme `protocol`: host[:port] up to the
\* first "/", "\", "?" or "#".
ParseAuthority(protocol, s) ==
    HostPort(protocol, BeforeFirst(AuthorityOf(s), ":"), AfterFirst(AuthorityOf(s), ":"),
             SubSeq(s, FirstOf(s, AuthorityEnd), Len(s)))

\* The scheme of an absolute http(s) URL text, <<>> when it has none.
SchemeOf(s) ==
    IF StartsWith(s, <<"h", "t", "t", "p", "s", ":">>) THEN <<"h", "t", "t", "p", "s", ":">>
    ELSE IF StartsWith(s, <<"h", "t", "t", "p", ":">>) THEN <<"h", "t", "t", "p", ":">>
    ELSE <<>>

\* The text after the scheme.
AfterScheme(s) == SubSeq(s, Len(SchemeOf(s)) + 1, Len(s))

\* new URL(text) for a text without surrounding spaces: the slashes after the
\* scheme are skipped whatever their number, a text without an http(s) scheme
\* throws (FailedUrl).
ParseTrimmed(s) ==
    IF SchemeOf(s) = <<>> THEN FailedUrl
    ELSE ParseAuthority(SchemeOf(s), SkipSlashes(AfterScheme(s)))

\* new URL(text): leading and trailing spaces are dropped.
ParseURL(text) == ParseTrimmed(Trim(text))

\* url.origin
Origin(u) ==
    u.protocol \o <<"/", "/">> \o u.host \o (IF u.port = <<>> THEN <<>> ELSE <<":">> \o u.port)

\* url.toString(), url.href
Href(u) ==
    Origin(u) \o u.pathname
        \o (IF u.search = NoString THEN <<>> ELSE <<"?">> \o u.search[1])
        \o (IF u.hash = NoString THEN <<>> ELSE <<"#">> \o u.hash[1])

\* The segments of a pathname without the last one (the parser's base path for a
\* path-relative reference).
DirSegments(pathname) == Front(Tail(Split(pathname, "/")))

\* Scheme, host and port of the base.
Keep(base) ==
    [ok |-> TRUE, protocol |-> base.protocol, host |-> base.host, port |-> base.port]

\* A reference s that starts with "/", "?" or "#", of which t is the pathname,
\* search and hash: each part the reference lacks is the base's, but a hash.
ResolveTail(s, base, t) ==
    IF s[1] \in {"/", "\\"} THEN Keep(base) @@ t
    ELSE IF s[1] = "?"
    THEN Keep(base) @@ [pathname |-> base.pathname, search |-> t.search, hash |-> t.hash]
    ELSE Keep(base) @@ [pathname |-> base.pathname, search |-> base.search, hash |-> t.hash]

\* new URL(s, base) for an http(s) base and a text without surrounding spaces: an
\* absolute http(s) text with its two slashes is parsed by itself, "//..." takes the
\* base's scheme, "/..." the base's origin, "?..." and "#..." the base's path as
\* well, anything else is relative to the directory of the base's path.
ResolveTrimmed(s, base) ==
    IF SchemeOf(s) # <<>> /\ StartsWith(AfterScheme(s), <<"/", "/">>) THEN ParseTrimmed(s)
    ELSE IF SchemeOf(s) # <<>> \/ (\E i \in 1..(FirstOf(s, AuthorityEnd) - 1) : s[i] = ":")
    THEN FailedUrl   \* another scheme, or a form the model does not cover
    ELSE IF s = <<>>
    THEN Keep(base) @@ [pathname |-> base.pathname, search |-> base.search, hash |-> NoString]
    ELSE IF Len(s) >= 2 /\ s[1] \in {"/", "\\"} /\ s[2] \in {"/", "\\"}
    THEN ParseAuthority(base.protocol, SkipSlashes(s))
    ELSE IF s[1] \in {"/", "\\", "?", "#"} THEN ResolveTail(s, base, Tail3(s, <<>>))
    ELSE Keep(base) @@ Tail3(<<"/">> \o s, DirSegments(base.pathname))

\* new URL(text, base)
ParseWithBase(text, base) == ResolveTrimmed(Trim(text), base)

----------------------------------------------------------------------------
(* normalizeRedditUrl and its helpers, route.ts:240-340 *)

\* pathname.split('/').filter(Boolean)
Segments(pathname) == SelectSeq(Split(pathname, "/"), LAMBDA x : x # <<>>)

\* The least number of path segments of a share link, route.ts:271.
MinShareSegments == 4

\* route.ts:271-280: the token of the segments, given sIndex = segments.indexOf('s')
\* (1-based here, 0 for the -1 of the code)
TokenOfSegments(segments, sIndex) ==
    IF Len(segments) < MinShareSegments THEN NoString
    ELSE IF segments[1] # <<"r">> \/ sIndex = 0 \/ sIndex # Len(segments) - 1 THEN NoString
    ELSE Some(segments[sIndex + 1])

\* route.ts:269-281
extractShareToken(pathname) ==
    TokenOfSegments(Segments(pathname), IndexOf(Segments(pathname), <<"s">>))

\* route.ts:284: token.replace(/-/g, '+').replace(/_/g, '/')
Standard(token) ==
    [i \in 1..Len(token) |->
        IF token[i] = "-" THEN "+" ELSE IF token[i] = "_" THEN "/" ELSE token[i]]

\* route.ts:285-286: padded with "=" to a multiple of four
Padded(normalized) == normalized \o [i \in 1..((4 - (Len(normalized) % 4)) % 4) |-> "="]

\* route.ts:284-286
PaddedToken(token) == Padded(Standard(token))

\* a ?? b on optional strings
OrElse(a, b) == IF a # NoString THEN a ELSE b

\* route.ts:307-317: the raw text when it looks like a URL or a path
RawPath(decodedString) ==
    IF StartsWith(decodedString, <<"h", "t", "t", "p">>) THEN Some(decodedString)
    ELSE IF StartsWith(decodedString, <<"/">>) THEN Some(decodedString)
    ELSE IF StartsWith(decodedString, <<"r", "/">>) THEN Some(<<"/">> \o decodedString)
    ELSE NoString

\* route.ts:293-319: the path or the URL the decoded text carries
DecodedPath(decodedString) ==
    OrElse(JsonStringField(decodedString, <<"p", "a", "t", "h">>),
           OrElse(JsonStringField(decodedString, <<"u", "r", "l">>), RawPath(decodedString)))

\* route.ts:283-322. Buffer.from(_, 'base64') and toString('utf-8') never throw.
decodeShareToken(token) == DecodedPath(Base64DecodeToText(PaddedToken(token)))

\* route.ts:325-328
Sanitized(decoded) ==
    StripDotJson(StripTrailingSlash(BeforeFirst(BeforeFirst(Trim(decoded), "#"), "?")))

\* route.ts:330-339, given resolvedUrl = new URL(sanitized)
ResolveSanitized(originalUrl, sanitized, resolvedUrl) ==
    IF resolvedUrl.ok THEN Origin(resolvedUrl) \o resolvedUrl.pathname
    ELSE IF StartsWith(sanitized, <<"/">>) THEN Origin(originalUrl) \o sanitized
    ELSE Origin(originalUrl) \o <<"/">> \o sanitized

\* route.ts:324-340
resolveDecodedSharePath(originalUrl, decoded) ==
    ResolveSanitized(originalUrl, Sanitized(decoded), ParseURL(Sanitized(decoded)))

\* route.ts:243-244
appendJson(baseUrl) == IF EndsWith(baseUrl, DotJson) THEN baseUrl ELSE baseUrl \o DotJson

\* route.ts:254: if (resolved)
IfNonEmpty(resolved) == IF resolved = <<>> THEN NoString ELSE Some(resolved)

\* route.ts:252-253: if (decoded)
ResolveDecoded(parsed, decoded) ==
    IF ~Truthy(decoded) THEN NoString
    ELSE IfNonEmpty(resolveDecodedSharePath(parsed, decoded[1]))

\* route.ts:250-251: if (shareToken)
ResolveToken(parsed, shareToken) ==
    IF ~Truthy(shareToken) THEN NoString
    ELSE ResolveDecoded(parsed, decodeShareToken(shareToken[1]))

\* route.ts:249-258: the share-link branch, null when it is not taken
SharePathOf(parsed) == ResolveToken(parsed, extractShareToken(parsed.pathname))

NormalizeParsedKeepingQuery(parsed, resolved) ==
    IF resolved # NoString THEN appendJson(resolved[1]) ELSE appendJson(Href(parsed))

\* route.ts:249-260, given resolved = the result of the share-link branch
NormalizeParsed(parsed, resolved) ==
    IF resolved # NoString THEN appendJson(resolved[1])
    ELSE appendJson(OrString(StripTrailingSlash(Origin(parsed) \o parsed.pathname),
                             Origin(parsed)))

\* route.ts:246-265, given parsed = new URL(trimmed)
NormalizeTrimmed(trimmed, parsed) ==
    IF parsed.ok THEN NormalizeParsed(parsed, SharePathOf(parsed))
    ELSE appendJson(StripTrailingSlash(BeforeFirst(BeforeFirst(trimmed, "#"), "?")))

\* route.ts:240-267
normalizeRedditUrl(inputUrl) == NormalizeTrimmed(Trim(inputUrl), ParseURL(Trim(inputUrl)))

----------------------------------------------------------------------------
(* Inputs of the URL functions *)

\* Segments before the tail of a path: at most this many.
MaxPrefix == 3

\* All sequences over S of length at most n.
SeqsUpTo(S, n) == UNION {[1..k -> S] : k \in 0..n}

\* reddit.test.ts:38
RedditOrigin == <<"h", "t", "t", "p", "s", ":", "/", "/", "w", "w", "w", ".", "r", "e", "d", "d", "i", "t", ".", "c", "o", "m">>

\* Texts a share token may carry that are absolute paths.
AbsolutePaths ==
    {<<"/", "r", "/", "x", "/", "c", "o", "m", "m", "e", "n", "t", "s", "/", "a", "b", "c">>, <<"/", "r", "/", "x", "/", "c", "o", "m", "m", "e", "n", "t", "s", "/", "a", "b", "c", "/">>, <<"/", "r", "/", "x", "/", "a", "b", "c", "?", "u", "t", "m", "=", "1", "#", "t", "o", "p">>, <<"/", "r", "/", "x", "/", "a", "b", "c", ".", "j", "s", "o", "n">>,
     <<"/", "r", "/", "x", "/", "a", "b", "c", ".", "j", "s", "o", "n", ".", "j", "s", "o", "n">>, <<"/">>, <<"/", "r", "/", "a", " ", "b">>, <<"/", "r", "/", "x", "/", "a", "b", "c", " ">>, <<"/", "r", "/", "x", "/", "s", "/", "L", "3", "J", "x">>}

\* Other texts a share token may carry: a relative path, absolute URLs, JSON
\* envelopes that are not {path}, and a text that is none of these.
OtherPayloads ==
    {<<"r", "/", "x", "/", "a", "b", "c">>, <<"h", "t", "t", "p", "s", ":", "/", "/", "o", "l", "d", ".", "r", "e", "d", "d", "i", "t", ".", "c", "o", "m", "/", "r", "/", "x", "/", "a", "b", "c", "/">>, <<"h", "t", "t", "p", ":", "/", "/", "r", "e", "d", "d", "i", "t", ".", "c", "o", "m", ":", "8", "0", "/", "r", "/", "x", ".", "j", "s", "o", "n", "?", "a", "=", "1">>,
     JsonStringify(<<"u", "r", "l">>, <<"h", "t", "t", "p", "s", ":", "/", "/", "o", "l", "d", ".", "r", "e", "d", "d", "i", "t", ".", "c", "o", "m", "/", "r", "/", "x", "/", "a", "b", "c">>),
     JsonStringify(<<"p", "a", "t", "h">>, <<>>), JsonStringify(<<"i", "d">>, <<"a", "b", "c">>), <<"h", "e", "l", "l", "o">>}

\* reddit.test.ts:29-53: the tokens of the payloads, raw and wrapped as {path}
EncodedTokens ==
    {Base64UrlEncode(p) : p \in AbsolutePaths \cup OtherPayloads}
        \cup {Base64UrlEncode(JsonStringify(<<"p", "a", "t", "h">>, p)) : p \in AbsolutePaths}

\* Tokens the service issues that encode nothing.
OpaqueTokens == {<<"t", "o", "k", "e", "n">>, <<"L", "3", "J", "x">>, <<"s">>}

ShareTokens == EncodedTokens \cup OpaqueTokens

\* What may follow the path of an input.
Decorations == {<<>>, <<"/">>, <<"?", "u", "t", "m", "_", "s", "o", "u", "r", "c", "e", "=", "s", "h", "a", "r", "e">>, <<"#", "t", "o", "p">>, <<".", "j", "s", "o", "n">>, <<".", "j", "s", "o", "n", "?", "x", "=", "1">>, <<"/", "#", "f", "o", "o">>}

\* Paths of every shape over the segments r, s and x, without a tail, or with a
\* decodable or an opaque token as the tail.
ShapeInputs ==
    {RedditOrigin \o <<"/">> \o Join(prefix \o tail, "/") :
        prefix \in SeqsUpTo({<<"r">>, <<"s">>, <<"x">>}, MaxPrefix),
        tail \in {<<>>, <<Base64UrlEncode(<<"/", "r", "/", "x", "/", "c", "o", "m", "m", "e", "n", "t", "s", "/", "a", "b", "c">>)>>, <<<<"t", "o", "k", "e", "n">>>>}}

\* Share links with every token and decoration.
ShareInputs ==
    {RedditOrigin \o <<"/", "r", "/", "x", "/", "s", "/">> \o token \o d : token \in ShareTokens, d \in Decorations}

\* Thread URLs (reddit.test.ts:6-27), with other origins and a bare origin.
PlainInputs ==
    {o \o p \o d :
        o \in {<<"h", "t", "t", "p", "s", ":", "/", "/", "r", "e", "d", "d", "i", "t", ".", "c", "o", "m">>, <<"h", "t", "t", "p", ":", "/", "/", "r", "e", "d", "d", "i", "t", ".", "c", "o", "m", ":", "8", "0", "8", "0">>, <<"h", "t", "t", "p", "s", ":", "/", "/", "r", "e", "d", "d", "i", "t", ".", "c", "o", "m", ":", "4", "4", "3">>},
        p \in {<<>>, <<"/", "r", "/", "t", "e", "s", "t", "/", "c", "o", "m", "m", "e", "n", "t", "s", "/", "a", "b", "c", "1", "2", "3">>, <<"/", "r", "/", "a", " ", "b">>, <<"/", "r", "/", "t", "e", "s", "t", " ">>},
        d \in Decorations}

\* Texts new URL() rejects.
UnparseableInputs ==
    {<<>>, <<"r", "/", "x", "/", "s", "/", "t", "o", "k", "e", "n">>, <<"w", "w", "w", ".", "r", "e", "d", "d", "i", "t", ".", "c", "o", "m", "/", "r", "/", "x", "/", "?", "a", "=", "1", "#", "b">>, <<" ", "n", "o", "t", " ", "a", " ", "u", "r", "l", "/", " ">>, <<"h", "t", "t", "p", "s", ":", "/", "/">>, <<"/", "r", "/", "x", ".", "j", "s", "o", "n">>}

Inputs == ShapeInputs \cup ShareInputs \cup PlainInputs \cup UnparseableInputs

\* Statuses of the probe response.
ProbeStatuses == {200, 299, 300, 302, 399, 400}

\* The location header of the probe response: absent, empty, absolute (in
\* serialized form, without a path, unparseable), and relative in each form.
Locations ==
    {NoString, Some(<<>>),
     Some(<<"h", "t", "t", "p", "s", ":", "/", "/", "w", "w", "w", ".", "r", "e", "d", "d", "i", "t", ".", "c", "o", "m", "/", "r", "/", "e", "x", "a", "m", "p", "l", "e", "/", "c", "o", "m", "m", "e", "n", "t", "s", "/", "a", "b", "c", "1", "2", "3", "/", "?", "u", "t", "m", "_", "s", "o", "u", "r", "c", "e", "=", "s", "h", "a", "r", "e">>),
     Some(<<"h", "t", "t", "p", "s", ":", "/", "/", "w", "w", "w", ".", "r", "e", "d", "d", "i", "t", ".", "c", "o", "m">>),
     Some(<<"h", "t", "t", "p", "s", ":", "/", "/">>),
     Some(<<"/", "r", "/", "e", "x", "a", "m", "p", "l", "e", "2", "/", "c", "o", "m", "m", "e", "n", "t", "s", "/", "d", "e", "f", "4", "5", "6", "/">>),
     Some(<<"/", "r", "/", "a", " ", "b">>),
     Some(<<"c", "o", "m", "m", "e", "n", "t", "s", "/", "d", "e", "f", "4", "5", "6">>),
     Some(<<"?", "c", "o", "n", "t", "e", "x", "t", "=", "3">>),
     Some(<<"/", "/", "o", "l", "d", ".", "r", "e", "d", "d", "i", "t", ".", "c", "o", "m", "/", "r", "/", "x">>)}

----------------------------------------------------------------------------
(* resolveShareUrlIfNeeded, route.ts:342-373 *)

\* What a call returns or throws.
Pending == [kind |-> "pending"]
JsNull == [kind |-> "null"]
Str(s) == [kind |-> "string", value |-> s]
Thrown == [kind |-> "throw"]

\* route.ts:345-349: the resolver's share-shape test
IsShareTail(segments, sIndex) ==
    ~(segments = <<>> \/ segments[1] # <<"r">> \/ sIndex = 0 \/ sIndex # Len(segments) - 1)

\* route.ts:345-346
IsShareLink(pathname) == IsShareTail(Segments(pathname), IndexOf(Segments(pathname), <<"s">>))

\* route.ts:351-357: the probe request
ProbeRequest(parsed) == [url |-> Href(parsed), method |-> "GET", redirect |-> "manual"]

ResolveLocationWithoutBase(location, parsed) == ParseURL(location)

\* route.ts:368
ResolveLocation(location, parsed) == ParseWithBase(location, parsed)

\* route.ts:368-369: resolved.toString(), unless new URL threw
ToStringOrThrow(resolvedUrl) == IF resolvedUrl.ok THEN Str(Href(resolvedUrl)) ELSE Thrown

\* route.ts:359-369: what the body of the try block makes of the response
ProbeOutcome(parsed, res) ==
    IF res.status < 300 \/ res.status >= 400 THEN JsNull
    ELSE IF ~Truthy(res.location) THEN JsNull
    ELSE ToStringOrThrow(ResolveLocation(res.location[1], parsed))

Rethrow(r) == r

\* route.ts:343, 370-372: the try/catch around the whole body
CatchNull(r) == IF r = Thrown THEN JsNull ELSE r

\* route.ts:342-357: the call up to its await
ResolveCall ==
    /\ rpc = "start"
    /\ \E parsed \in {ParseURL(givenUrl)} :
       IF ~parsed.ok
       THEN /\ resolvedShareUrl' = CatchNull(Thrown)
            /\ rpc' = "done"
            /\ UNCHANGED fetchCalls
       ELSE IF ~IsShareLink(parsed.pathname)
       THEN /\ resolvedShareUrl' = JsNull
            /\ rpc' = "done"
            /\ UNCHANGED fetchCalls
       ELSE /\ fetchCalls' = Append(fetchCalls, ProbeRequest(parsed))
            /\ rpc' = "awaitProbe"
            /\ UNCHANGED resolvedShareUrl
    /\ UNCHANGED <<givenUrl, response, jsonUrl, jsonUrlAgain, tokenVars, fetchVars, postVars>>

\* route.ts:351-372: fetch rejects (network failure)
ProbeRejects ==
    /\ rpc = "awaitProbe"
    /\ response' = [kind |-> "rejected"]
    /\ resolvedShareUrl' = CatchNull(Thrown)
    /\ rpc' = "done"
    /\ UNCHANGED <<givenUrl, fetchCalls, jsonUrl, jsonUrlAgain, tokenVars, fetchVars, postVars>>

\* route.ts:351-372: fetch resolves with a response
ProbeResponds ==
    /\ rpc = "awaitProbe"
    /\ \E s \in ProbeStatuses, l \in Locations :
        /\ response' = [kind |-> "response", status |-> s, location |-> l]
        /\ resolvedShareUrl' = CatchNull(ProbeOutcome(ParseURL(givenUrl), response'))
    /\ rpc' = "done"
    /\ UNCHANGED <<givenUrl, fetchCalls, jsonUrl, jsonUrlAgain, tokenVars, fetchVars, postVars>>

\* normalizeRedditUrl is applied to the input (before the resolver is called on it:
\* the function is pure, so the order makes no difference to either).
Normalize ==
    /\ rpc = "start"
    /\ jsonUrl = Pending
    /\ jsonUrl' = Str(normalizeRedditUrl(givenUrl))
    /\ UNCHANGED <<givenUrl, rpc, fetchCalls, response, resolvedShareUrl, jsonUrlAgain, tokenVars, fetchVars, postVars>>

\* normalizeRedditUrl is applied to its own result.
NormalizeAgain ==
    /\ rpc = "start"
    /\ jsonUrl # Pending
    /\ jsonUrlAgain = Pending
    /\ jsonUrlAgain' = Str(normalizeRedditUrl(jsonUrl.value))
    /\ UNCHANGED <<givenUrl, rpc, fetchCalls, response, resolvedShareUrl, jsonUrl, tokenVars, fetchVars, postVars>>

InitUrl ==
    /\ givenUrl \in Inputs
    /\ rpc = "start"
    /\ fetchCalls = <<>>
    /\ response = [kind |-> "none"]
    /\ resolvedShareUrl = Pending
    /\ jsonUrl = Pending
    /\ jsonUrlAgain = Pending
    /\ InitToken
    /\ env = [clientId |-> "test-client", clientSecret |-> "test-secret"]

NextUrl ==
    \/ ResolveCall
    \/ ProbeRejects
    \/ ProbeResponds
    \/ Normalize
    \/ NormalizeAgain

SpecUrl == InitUrl /\ [][NextUrl]_vars

----------------------------------------------------------------------------
(* fetchRedditJson, route.ts:219-238 *)

\* route.ts:168: REDDIT_USER_AGENT, with process.env.REDDIT_USER_AGENT unset
REDDIT_USER_AGENT == <<"R", "e", "d", "d", "i", "t", "S", "u", "m", "m", "a", "r", "i", "z", "e", "r", "/", "1", ".", "0">>

\* The name of a query parameter: the text before its "=".
ParamName(param) == BeforeFirst(param, "=")

\* URLSearchParams.set(name, value) on the list of parameters: the first parameter
\* of that name takes the value and the later ones are removed; without one, the
\* parameter is appended.
SetParam(params, name, value) ==
    IF \E i \in 1..Len(params) : ParamName(params[i]) = name
    THEN LET first == CHOOSE i \in 1..Len(params) :
                          /\ ParamName(params[i]) = name
                          /\ \A j \in 1..(i - 1) : ParamName(params[j]) # name
         IN  SubSeq(params, 1, first - 1) \o <<name \o <<"=">> \o value>>
                 \o SelectSeq(SubSeq(params, first + 1, Len(params)),
                              LAMBDA q : ParamName(q) # name)
    ELSE Append(params, name \o <<"=">> \o value)

\* The parameters of url.search.
ParamsOf(search) == IF search = NoString THEN <<>> ELSE Split(search[1], "&")

\* route.ts:222-225: the endpoint on the authenticated API host, without a port and
\* with raw_json=1
ApiUrl(parsed) ==
    [parsed EXCEPT !.host = <<"o", "a", "u", "t", "h", ".", "r", "e", "d", "d", "i", "t", ".", "c", "o", "m">>,
                   !.port = <<>>,
                   !.search = Some(Join(SetParam(ParamsOf(parsed.search), <<"r", "a", "w", "_", "j", "s", "o", "n">>, <<"1">>), "&"))]

\* route.ts:227-237: the request passed to fetch, init being {}
ApiRequest(parsed, accessToken) ==
    [url |-> Href(ApiUrl(parsed)),
     method |-> "GET",
     userAgent |-> REDDIT_USER_AGENT,
     authorization |-> [scheme |-> "Bearer", credentials |-> accessToken],
     accept |-> <<"a", "p", "p", "l", "i", "c", "a", "t", "i", "o", "n", "/", "j", "s", "o", "n">>]

\* The promise fetchRedditJson returns is the one of its fetch call.
OfFetch == [kind |-> "fetch"]

\* As Continue, but the token call's error is replaced by one of the fetcher's own.
ContinueWrappingError(result, parsed) ==
    IF result.kind = "throw" THEN [fetched |-> Throw("FetchFailure"), apiFetch |-> NoCall]
    ELSE IF ~parsed.ok THEN [fetched |-> Throw("TypeError"), apiFetch |-> NoCall]
    ELSE [fetched |-> OfFetch, apiFetch |-> <<ApiRequest(parsed, result.token)>>]

\* route.ts:220-237 once the token call has ended with `result`: its error is thrown
\* on, new URL throws on an unparseable url, else the request is issued.
Continue(result, parsed) ==
    IF result.kind = "throw" THEN [fetched |-> result, apiFetch |-> NoCall]
    ELSE IF ~parsed.ok THEN [fetched |-> Throw("TypeError"), apiFetch |-> NoCall]
    ELSE [fetched |-> OfFetch, apiFetch |-> <<ApiRequest(parsed, result.token)>>]

\* The endpoints fetchRedditJson is called with.
Endpoints ==
    { <<"h", "t", "t", "p", "s", ":", "/", "/", "w", "w", "w", ".", "r", "e", "d", "d", "i", "t", ".", "c", "o", "m", "/", "r", "/", "t", "e", "s", "t", "/", "c", "o", "m", "m", "e", "n", "t", "s", "/", "a", "b", "c", "1", "2", "3", ".", "j", "s", "o", "n">>,
      <<"h", "t", "t", "p", ":", "/", "/", "r", "e", "d", "d", "i", "t", ".", "c", "o", "m", ":", "8", "0", "8", "0", "/", "r", "/", "t", "e", "s", "t", ".", "j", "s", "o", "n", "?", "r", "a", "w", "_", "j", "s", "o", "n", "=", "0", "&", "l", "i", "m", "i", "t", "=", "5">>,
      <<"r", "/", "t", "e", "s", "t", ".", "j", "s", "o", "n">> }

\* route.ts:219-220: fetchRedditJson is called and runs into getRedditAccessToken
fetchRedditJson(p) ==
    /\ fetchUrl[p] = NoCall
    /\ \E u \in Endpoints : fetchUrl' = [fetchUrl EXCEPT ![p] = <<u>>]
    /\ getRedditAccessToken(p)
    /\ UNCHANGED <<apiFetch, fetched, urlVars, postVars>>

\* route.ts:220-237: the token call has ended and fetchRedditJson runs to its end
TokenArrives(p) ==
    /\ pc[p] = "done"
    /\ fetchUrl[p] # NoCall
    /\ fetched[p] = Idle
    /\ \E c \in {Continue(outcome[p], ParseURL(fetchUrl[p][1]))} :
        /\ fetched' = [fetched EXCEPT ![p] = c.fetched]
        /\ apiFetch' = [apiFetch EXCEPT ![p] = c.apiFetch]
    /\ UNCHANGED <<tokenVars, fetchUrl, urlVars, postVars>>

\* The caller of fetchRedditJson takes the result.
FetcherSettles(p) ==
    /\ fetched[p] # Idle
    /\ Forget(p)
    /\ fetchUrl' = [fetchUrl EXCEPT ![p] = NoCall]
    /\ apiFetch' = [apiFetch EXCEPT ![p] = NoCall]
    /\ fetched' = [fetched EXCEPT ![p] = Idle]
    /\ UNCHANGED <<env, clock, cachedAccessToken, cachedJson, urlVars, postVars>>

NextFetch ==
    \/ \E p \in Callers : fetchRedditJson(p)
    \/ \E p \in Callers : FetchRejects(p)
    \/ \E p \in Callers : FetchResolves(p)
    \/ \E p \in Callers : TextResolves(p)
    \/ \E p \in Callers : JsonResolves(p)
    \/ \E p \in Callers : TokenArrives(p)
    \/ \E p \in Callers : FetcherSettles(p)

SpecFetch == Init /\ [][NextFetch]_vars

----------------------------------------------------------------------------
(* POST, route.ts:11-84 *)

\* process.env.OPENAI_API_KEY, absent or set
ApiKeys == {Undefined, "sk-test"}

\* What the thread request is answered with: a body of the expected two listings,
\* or one that is no JSON or lacks them.
Payloads == {"listings", "malformed"}

\* A request without an Authorization header.
NoAuthorization == [scheme |-> "none"]

\* route.ts:15: resolvedShareUrl ?? url
EffectiveUrl(resolved, url) == IF resolved = JsNull THEN url ELSE resolved.value

\* route.ts:25-29: the request POST passes to fetch for the thread
ThreadRequest(url) ==
    [url |-> url,
     method |-> "GET",
     userAgent |-> <<"R", "e", "d", "d", "i", "t", "S", "u", "m", "m", "a", "r", "i", "z", "e", "r", "/", "1", ".", "0">>,
     authorization |-> NoAuthorization]

\* route.ts:14-25: the resolver has returned; POST normalizes the effective URL,
\* answers 500 without an OpenAI key, and else fetches the thread
PostContinues ==
    /\ rpc = "done"
    /\ steps = <<>>
    /\ jsonUrl' = Str(normalizeRedditUrl(EffectiveUrl(resolvedShareUrl, givenUrl)))
    /\ \E apiKey \in ApiKeys :
        IF Falsy(apiKey)
        THEN /\ steps' = <<"resolve", "normalize", "respondError">>
             /\ UNCHANGED threadFetch
        ELSE /\ steps' = <<"resolve", "normalize", "fetch">>
             /\ threadFetch' = <<ThreadRequest(jsonUrl'.value)>>
    /\ UNCHANGED <<givenUrl, rpc, fetchCalls, response, resolvedShareUrl, jsonUrlAgain,
                   tokenVars, fetchVars>>

\* route.ts:25-81: the thread fetch rejects; the catch answers 500
ThreadFetchRejects ==
    /\ steps # <<>>
    /\ steps[Len(steps)] = "fetch"
    /\ steps' = Append(steps, "respondError")
    /\ UNCHANGED <<threadFetch, urlVars, tokenVars, fetchVars>>

\* route.ts:31-59: the thread response has arrived and its body is read; post and
\* comments are extracted and the completion is requested, or the catch answers 500
ThreadFetchResolves ==
    /\ steps # <<>>
    /\ steps[Len(steps)] = "fetch"
    /\ \E payload \in Payloads :
        steps' = IF payload = "listings"
                 THEN steps \o <<"digest", "summarize">>
                 ELSE Append(steps, "respondError")
    /\ UNCHANGED <<threadFetch, urlVars, tokenVars, fetchVars>>

\* route.ts:51-78: the completion has arrived; the summary is answered
SummaryArrives ==
    /\ steps # <<>>
    /\ steps[Len(steps)] = "summarize"
    /\ steps' = Append(steps, "respond")
    /\ UNCHANGED <<threadFetch, urlVars, tokenVars, fetchVars>>

\* route.ts:51-81: the completion request fails; the catch answers 500
SummaryRejects ==
    /\ steps # <<>>
    /\ steps[Len(steps)] = "summarize"
    /\ steps' = Append(steps, "respondError")
    /\ UNCHANGED <<threadFetch, urlVars, tokenVars, fetchVars>>

NextPost ==
    \/ ResolveCall
    \/ ProbeRejects
    \/ ProbeResponds
    \/ PostContinues
    \/ ThreadFetchRejects
    \/ ThreadFetchResolves
    \/ SummaryArrives
    \/ SummaryRejects

SpecPost == InitUrl /\ [][NextPost]_vars

----------------------------------------------------------------------------
(* Properties of the token cache *)

\* Both secrets are configured (neither absent nor empty).
Configured == env.clientId \notin {Undefined, ""} /\ env.clientSecret \notin {Undefined, ""}

\* The cached credential's expiry is more than 60 seconds after the current time.
FreshCache == cachedAccessToken # Null /\ cachedAccessToken.expiresAt - clock > ReuseMarginMs

\* Caller p takes the first step of a call.
Starts(p) == pc[p] = "idle" /\ pc'[p] # "idle"

\* The credential a refresh that read the clock at n must store for body j.
ExpectedCredential(j, n) ==
    LET lifetime == IF j.expires_in = <<>> THEN 0 ELSE j.expires_in[1]
        kept == IF lifetime > EarlyRefreshSeconds THEN lifetime - EarlyRefreshSeconds ELSE 0
    IN  [token |-> j.access_token[1], expiresAt |-> n + kept * MsPerSecond]

\* C1: a call made while a cached credential exists whose expiresAt is more than
\* 60 s after the current time, with both secrets configured, returns the cached
\* token in that same step, issues no token request and leaves the cache unchanged.
C1_FreshCacheIsReturned ==
    [][\A p \in Callers :
         (Starts(p) /\ Configured /\ FreshCache) =>
            /\ pc'[p] = "done"
            /\ outcome'[p] = Return(cachedAccessToken.token)
            /\ requests'[p] = 0
            /\ cachedAccessToken' = cachedAccessToken]_vars

\* C1 witness: a call has returned a token without issuing a request.
C1_Witness ==
    \E p \in Callers :
        /\ pc[p] = "done"
        /\ outcome[p].kind = "return"
        /\ requests[p] = 0
        /\ cachedAccessToken # Null
        /\ outcome[p].token = cachedAccessToken.token

\* C2: a call made with the secrets configured and the cache empty or not more than
\* 60 s from expiry issues one token request; when that request succeeds the call
\* has issued exactly one request, returns the token of the response, and the cache
\* becomes exactly {that token, now + max(lifetime - 60, 0) s}, now being the time
\* the call read, with nothing of the previous credential kept.
C2_RefreshReplacesCredential ==
    [][\A p \in Callers :
         /\ (Starts(p) /\ Configured /\ ~FreshCache) =>
                (pc'[p] = "awaitFetch" /\ requests'[p] = 1 /\ now'[p] = clock)
         /\ (pc[p] = "awaitJson" /\ pc'[p] = "done" /\ outcome'[p].kind = "return") =>
                /\ requests'[p] = 1
                /\ outcome'[p].token = tokenJson'[p].access_token[1]
                /\ cachedAccessToken' = ExpectedCredential(tokenJson'[p], now[p])]_vars

\* C2 witness: a refresh has replaced an earlier credential that held another token
\* and the time has moved on since the refreshing call read the clock.
C2_Witness ==
    \E p \in Callers :
        /\ pc[p] = "done"
        /\ outcome[p].kind = "return"
        /\ requests[p] = 1
        /\ changed[p]
        /\ tokenJson[p].expires_in = <<150>>
        /\ now[p] > 0
        /\ clock > now[p]
        /\ cachedAccessToken = ExpectedCredential(tokenJson[p], now[p])

\* The callers whose pending result is a token obtained by a refresh.
Refreshed == {p \in Callers : pc[p] = "done" /\ outcome[p].kind = "return" /\ requests[p] = 1}

\* C3: a call that finds no reusable credential issues its own token request even
\* while another call's request is in flight; each refresh returns the token of its
\* own response; and once all the calls have finished, each with a refresh, the cache
\* holds exactly the {token, expiresAt} pair of the call whose response was
\* processed last.
C3_LastWriterWins ==
    /\ [](\A p \in Refreshed : outcome[p].token = tokenJson[p].access_token[1])
    /\ [](Refreshed = Callers =>
            LET w == order[Len(order)] IN
            cachedAccessToken = ExpectedCredential(tokenJson[w], now[w]))
    /\ [][\A p \in Callers :
            (Starts(p) /\ Configured /\ ~FreshCache
                /\ \E q \in Callers \ {p} : pc[q] \in {"awaitFetch", "awaitJson", "awaitText"})
            => (pc'[p] = "awaitFetch" /\ requests'[p] = 1)]_vars

\* C3 witness: two calls overlapped (the one that read the clock first was processed
\* last), got different tokens, and the cache holds the pair of the last one.
C3_Witness ==
    /\ Refreshed = Callers
    /\ LET w == order[Len(order)]
           f == order[1]
       IN  /\ now[w] < now[f]
           /\ outcome[w].token # outcome[f].token
           /\ cachedAccessToken = ExpectedCredential(tokenJson[w], now[w])
           /\ cachedAccessToken # ExpectedCredential(tokenJson[f], now[f])

\* C4: with either secret not configured a call fails with the configuration error
\* in its first step, issues no request and leaves the cache unchanged, whatever
\* the cache holds.
C4_MissingSecretsFailFirst ==
    [][\A p \in Callers :
         (Starts(p) /\ ~Configured) =>
            /\ pc'[p] = "done"
            /\ outcome'[p] = Throw("MissingCredentials")
            /\ requests'[p] = 0
            /\ cachedAccessToken' = cachedAccessToken]_vars

\* C4 witness: the configuration error was raised while a still-valid credential
\* is cached.
C4_Witness ==
    \E p \in Callers :
        /\ pc[p] = "done"
        /\ outcome[p] = Throw("MissingCredentials")
        /\ requests[p] = 0
        /\ FreshCache

\* The token request of caller p was answered with a non-success status.
NonSuccess(p) == status[p] # 0 /\ (status[p] < 200 \/ status[p] > 299)

\* The token request of caller p was answered with a success status and a JSON
\* object without the access_token field.
LacksToken(p) ==
    /\ status[p] >= 200 /\ status[p] <= 299
    /\ tokenJson[p] # Null /\ tokenJson[p].kind = "object"
    /\ tokenJson[p].access_token = <<>>

C5_WitnessLacksToken ==
    \E p \in Callers : pc[p] = "done" /\ LacksToken(p) /\ cachedAccessToken # Null

----------------------------------------------------------------------------
(* Properties of the share-link resolver and the normalizer, under SpecUrl *)

\* The probe was answered with a status in 300..399.
Redirected == response.kind = "response" /\ response.status >= 300 /\ response.status <= 399

\* C6: resolveShareUrlIfNeeded never raises; once it has completed its result is a
\* value, and that value is null whenever the input does not parse as a URL, the
\* probe request failed, the status is outside 300..399 or no location was sent.
C6_ResolverNeverRaises ==
    /\ resolvedShareUrl.kind # "throw"
    /\ rpc = "done" =>
        /\ resolvedShareUrl.kind \in {"null", "string"}
        /\ (\/ ~ParseURL(givenUrl).ok
            \/ response.kind = "rejected"
            \/ (response.kind = "response" /\ ~Redirected)
            \/ (response.kind = "response" /\ response.location = NoString))
           => resolvedShareUrl = JsNull

\* C6 witness: the probe answered 302 with a location that is no URL, and the
\* resolver returned null.
C6_Witness ==
    /\ rpc = "done"
    /\ Redirected
    /\ response.location = Some(<<"h", "t", "t", "p", "s", ":", "/", "/">>)
    /\ resolvedShareUrl = JsNull

\* The path has the tail r/.../s/<token>: its first segment is r and its
\* second-to-last segment is s.
HasShareTail(segments) ==
    /\ Len(segments) >= 3
    /\ segments[1] = <<"r">>
    /\ segments[Len(segments) - 1] = <<"s">>

\* C7: a completed call has issued no request when the input is unparseable or its
\* path lacks the r/.../s/<token> tail, and its result is then null; otherwise it
\* has issued exactly one request, a GET to the input URL (in its parsed form)
\* with redirect following disabled.
C7_OneProbeForShareLinks ==
    rpc = "done" =>
        LET parsed == ParseURL(givenUrl) IN
        IF ~parsed.ok \/ ~HasShareTail(Segments(parsed.pathname))
        THEN fetchCalls = <<>> /\ resolvedShareUrl = JsNull
        ELSE fetchCalls = <<[url |-> Href(parsed), method |-> "GET", redirect |-> "manual"]>>

\* The location is an absolute URL: it has a scheme.
IsAbsolute(location) == SchemeOf(location) # <<>>

\* A location header with a non-empty value was sent.
HasLocation == response.location # NoString /\ response.location # Some(<<>>)

\* C8 as stated: on a 3xx answer with a location header the result is the location
\* verbatim when it is absolute, and the location resolved against the original
\* URL's origin when it is relative.
C8_LocationVerbatim ==
    (rpc = "done" /\ Redirected /\ HasLocation) =>
        LET location == response.location[1]
            origin == ParseURL(Origin(ParseURL(givenUrl)))
        IN  IF IsAbsolute(location) THEN resolvedShareUrl = Str(location)
            ELSE resolvedShareUrl = Str(Href(ParseWithBase(location, origin)))

LowerCase == {Ascii[i] : i \in 66..91}
UpperCase == {Ascii[i] : i \in 34..59}
HostChars == LowerCase \cup Digits \cup {".", "-"}
\* Characters the URL parser leaves as they are after the host.
KeptChars == LowerCase \cup UpperCase \cup Digits \cup {"/", "-", "_", "=", "&", "?", "#"}

\* A text that starts with a slash, has no "." or ".." segment in its path and
\* only characters the parser keeps.
IsSerializedPath(s) ==
    /\ s # <<>> /\ s[1] = "/"
    /\ \A i \in 1..Len(s) : s[i] \in KeptChars

\* An absolute http(s) URL in the form the parser serializes it: scheme, "//", a
\* lower-case host, no port, and a path in serialized form.
IsSerializedUrl(s) ==
    \E scheme \in {<<"h", "t", "t", "p", "s", ":", "/", "/">>, <<"h", "t", "t", "p", ":", "/", "/">>} :
        /\ StartsWith(s, scheme)
        /\ LET afterScheme == SubSeq(s, Len(scheme) + 1, Len(s))
               host == BeforeFirst(afterScheme, "/")
           IN  /\ host # <<>>
               /\ \A i \in 1..Len(host) : host[i] \in HostChars
               /\ IsSerializedPath(SubSeq(afterScheme, Len(host) + 1, Len(afterScheme)))

\* C8 as amended: on a 3xx answer with a location, the result is the location
\* verbatim when it is an absolute http(s) URL already in serialized form, and the
\* original URL's origin followed by the location when it is a path-absolute
\* reference (one leading slash) already in serialized form.
C8_LocationResolved ==
    (rpc = "done" /\ Redirected /\ HasLocation) =>
        LET location == response.location[1] IN
        /\ IsSerializedUrl(location) => resolvedShareUrl = Str(location)
        /\ (IsSerializedPath(location) /\ ~StartsWith(location, <<"/", "/">>)) =>
              resolvedShareUrl = Str(Origin(ParseURL(givenUrl)) \o location)

\* C8 witness: a relative location was resolved against the origin of a share link
\* that carries a query string.
C8_Witness ==
    /\ rpc = "done"
    /\ Redirected
    /\ EndsWith(givenUrl, <<"?", "u", "t", "m", "_", "s", "o", "u", "r", "c", "e", "=", "s", "h", "a", "r", "e">>)
    /\ response.location = Some(<<"/", "r", "/", "e", "x", "a", "m", "p", "l", "e", "2", "/", "c", "o", "m", "m", "e", "n", "t", "s", "/", "d", "e", "f", "4", "5", "6", "/">>)
    /\ resolvedShareUrl = Str(<<"h", "t", "t", "p", "s", ":", "/", "/", "w", "w", "w", ".", "r", "e", "d", "d", "i", "t", ".", "c", "o", "m", "/", "r", "/", "e", "x", "a", "m", "p", "l", "e", "2", "/", "c", "o", "m", "m", "e", "n", "t", "s", "/", "d", "e", "f", "4", "5", "6", "/">>)

\* The input without its query string and fragment.
WithoutQueryAndFragment(s) == BeforeFirst(BeforeFirst(s, "#"), "?")

\* A canonical endpoint: an http(s) URL in serialized form, without query string
\* or fragment, that ends in .json.
IsCanonicalEndpoint(x) ==
    /\ EndsWith(x, DotJson)
    /\ ParseURL(x).ok
    /\ Href(ParseURL(x)) = x
    /\ WithoutQueryAndFragment(x) = x

\* C9: normalizing twice gives what normalizing once gives, and a canonical
\* endpoint ending in .json, with or without a query string or fragment appended,
\* is returned as it is.
C9_NormalizeIdempotent ==
    /\ jsonUrlAgain # Pending => jsonUrlAgain = jsonUrl
    /\ (jsonUrl # Pending /\ IsCanonicalEndpoint(WithoutQueryAndFragment(givenUrl))) =>
          jsonUrl = Str(WithoutQueryAndFragment(givenUrl))

\* The path is share-shaped: at least four segments, the first r, the
\* second-to-last s.
IsShareShaped(segments) == Len(segments) >= MinShareSegments /\ HasShareTail(segments)

\* p without query, fragment, one trailing slash and a .json suffix.
Stripped(p) == StripDotJson(StripTrailingSlash(WithoutQueryAndFragment(p)))

\* Paths for which the stripping is unambiguous: no surrounding white space, a
\* non-empty remainder, and no second .json suffix.
PlainPaths ==
    {p \in AbsolutePaths :
        Trim(p) = p /\ Stripped(p) # <<>> /\ ~EndsWith(Stripped(p), DotJson)}

\* C10: a share-shaped URL whose token is the URL-safe unpadded base64 of an
\* absolute path p, raw or wrapped as {"path": p}, normalizes to the URL's origin
\* followed by p stripped followed by .json.
C10_ShareTokenDecoded ==
    jsonUrl # Pending =>
        LET parsed == ParseURL(givenUrl) IN
        parsed.ok =>
            LET segments == Segments(parsed.pathname) IN
            \A p \in PlainPaths :
                (/\ IsShareShaped(segments)
                 /\ segments[Len(segments)] \in
                        {Base64UrlEncode(p), Base64UrlEncode(JsonStringify(<<"p", "a", "t", "h">>, p))})
                => jsonUrl = Str(Origin(parsed) \o Stripped(p) \o DotJson)

----------------------------------------------------------------------------
(* Further properties of the normalizer *)

\* The input, trimmed, without its query string and fragment.
Stem(y) == WithoutQueryAndFragment(Trim(y))

\* y parses as a URL and the share-link branch of the normalizer is not taken for it.
NotDecodableShare(y) == ParseURL(y).ok /\ SharePathOf(ParseURL(y)) = NoString

\* origin + pathname of a parsed URL, one trailing slash removed, .json appended
\* unless present.
OriginPathJson(parsed) ==
    LET base == Origin(parsed) \o parsed.pathname
        cut == IF base[Len(base)] = "/" THEN SubSeq(base, 1, Len(base) - 1) ELSE base
    IN  IF EndsWith(cut, <<".", "j", "s", "o", "n">>) THEN cut ELSE cut \o <<".", "j", "s", "o", "n">>

\* The step that applies normalizeRedditUrl to the input.
Normalizes == jsonUrl = Pending /\ jsonUrl' # Pending

\* C11 as stated: normalize always returns a string; for a parseable URL that is no
\* decodable share link the result is origin + pathname, one trailing slash removed,
\* .json appended unless present; and any two such inputs that differ only in query
\* string or fragment have the same result.
C11_QueryAndFragmentIgnored ==
    [][Normalizes =>
        /\ jsonUrl'.kind = "string"
        /\ NotDecodableShare(givenUrl) =>
            /\ jsonUrl'.value = OriginPathJson(ParseURL(givenUrl))
            /\ \A y \in Inputs :
                (WithoutQueryAndFragment(y) = WithoutQueryAndFragment(givenUrl)
                    /\ NotDecodableShare(y))
                => normalizeRedditUrl(y) = jsonUrl'.value]_vars

\* C11 as amended: the same, for two inputs that differ only in query string or
\* fragment after each has been trimmed of surrounding white space.
C11_FallbackShape ==
    [][Normalizes =>
        /\ jsonUrl'.kind = "string"
        /\ NotDecodableShare(givenUrl) =>
            /\ jsonUrl'.value = OriginPathJson(ParseURL(givenUrl))
            /\ \A y \in Inputs :
                (Stem(y) = Stem(givenUrl) /\ NotDecodableShare(y))
                => normalizeRedditUrl(y) = jsonUrl'.value]_vars

\* C11 witness: a thread URL with a query string was normalized to the result of
\* the same URL without it.
C11_Witness ==
    /\ givenUrl = <<"h", "t", "t", "p", "s", ":", "/", "/", "r", "e", "d", "d", "i", "t", ".", "c", "o", "m", "/", "r", "/", "t", "e", "s", "t", "/", "c", "o", "m", "m", "e", "n", "t", "s", "/", "a", "b", "c", "1", "2", "3", "?", "u", "t", "m", "_", "s", "o", "u", "r", "c", "e", "=", "s", "h", "a", "r", "e">>
    /\ NotDecodableShare(givenUrl)
    /\ jsonUrl = Str(<<"h", "t", "t", "p", "s", ":", "/", "/", "r", "e", "d", "d", "i", "t", ".", "c", "o", "m", "/", "r", "/", "t", "e", "s", "t", "/", "c", "o", "m", "m", "e", "n", "t", "s", "/", "a", "b", "c", "1", "2", "3", ".", "j", "s", "o", "n">>)
    /\ normalizeRedditUrl(<<"h", "t", "t", "p", "s", ":", "/", "/", "r", "e", "d", "d", "i", "t", ".", "c", "o", "m", "/", "r", "/", "t", "e", "s", "t", "/", "c", "o", "m", "m", "e", "n", "t", "s", "/", "a", "b", "c", "1", "2", "3">>) = jsonUrl.value

----------------------------------------------------------------------------
(* Properties of fetchRedditJson *)

\* Caller p's fetchRedditJson passes a request to fetch in this step.
IssuesApiFetch(p) == apiFetch'[p] # apiFetch[p] /\ apiFetch'[p] # NoCall

\* Caller p's fetchRedditJson ends in this step.
FetcherEnds(p) == fetched[p] = Idle /\ fetched'[p] # Idle

\* C12: fetchRedditJson passes its data request to fetch only in a step in which
\* its getRedditAccessToken call has returned a token; the request is a GET to
\* oauth.reddit.com whose Authorization header is "Bearer" with that token. When
\* the token call has thrown, fetchRedditJson ends without a data request, and
\* what it throws is the token call's error itself.
C12_DataRequestAfterToken ==
    [][\A p \in Callers :
        /\ IssuesApiFetch(p) =>
            /\ pc[p] = "done"
            /\ outcome[p].kind = "return"
            /\ apiFetch'[p][1].method = "GET"
            /\ ParseURL(apiFetch'[p][1].url).host = <<"o", "a", "u", "t", "h", ".", "r", "e", "d", "d", "i", "t", ".", "c", "o", "m">>
            /\ apiFetch'[p][1].authorization =
                   [scheme |-> "Bearer", credentials |-> outcome[p].token]
        /\ (FetcherEnds(p) /\ outcome[p].kind = "throw") =>
            /\ apiFetch[p] = NoCall
            /\ apiFetch'[p] = NoCall
            /\ fetched'[p] = outcome[p]
        /\ (pc[p] # "done" /\ pc'[p] # "done") => apiFetch'[p] = NoCall]_vars

\* One caller's token call returned tokA and its data request carries it to the API
\* host; the other's token request was refused and it ended with that error,
\* without a data request.
C12_Witness ==
    \E p, q \in Callers :
        /\ outcome[p] = Return("tokA")
        /\ apiFetch[p] # NoCall
        /\ apiFetch[p][1].url = <<"h", "t", "t", "p", ":", "/", "/", "o", "a", "u", "t", "h", ".", "r", "e", "d", "d", "i", "t", ".", "c", "o", "m", "/", "r", "/", "t", "e", "s", "t", ".", "j", "s", "o", "n", "?", "r", "a", "w", "_", "j", "s", "o", "n", "=", "1", "&", "l", "i", "m", "i", "t", "=", "5">>
        /\ apiFetch[p][1].authorization.credentials = "tokA"
        /\ outcome[q] = Throw("TokenRequestFailed")
        /\ fetched[q] = outcome[q]
        /\ apiFetch[q] = NoCall

----------------------------------------------------------------------------
(* Properties of POST *)

\* POST passes the thread request to fetch in this step.
IssuesThreadFetch == threadFetch = NoCall /\ threadFetch' # NoCall

\* The steps of `log` are in the order of `pipeline`, each at most once.
RECURSIVE InOrder(_, _)
InOrder(log, pipeline) ==
    \/ log = <<>>
    \/ /\ pipeline # <<>>
       /\ IF log[1] = pipeline[1] THEN InOrder(Tail(log), Tail(pipeline))
          ELSE InOrder(log, Tail(pipeline))

\* C13: the steps of a summarize request are taken in the order resolve, normalize,
\* fetch, digest, summarize, respond; the thread request is passed to fetch only
\* once the resolver has returned and the URL is normalized, it is for the
\* normalized URL, and its Authorization header is "Bearer" with the token that a
\* getRedditAccessToken call has returned to the request.
C13_ThreadFetchAuthenticated ==
    [][/\ InOrder(steps', <<"resolve", "normalize", "fetch", "digest", "summarize",
                            "respond", "respondError">>)
       /\ IssuesThreadFetch =>
            /\ rpc = "done"
            /\ jsonUrl' # Pending
            /\ threadFetch'[1].url = jsonUrl'.value
            /\ threadFetch'[1].authorization.scheme = "Bearer"
            /\ \E p \in Callers :
                   outcome[p] = Return(threadFetch'[1].authorization.credentials)]_vars

----------------------------------------------------------------------------
(* Properties of the share-shape tests *)

\* The resolver's call runs up to its return or its await in this step.
ResolverTests == rpc = "start" /\ rpc' # "start"

\* C14: for a parseable URL, resolveShareUrlIfNeeded goes on to the probe exactly
\* when extractShareToken finds a token in the URL's pathname.
C14_SameShareShapeTest ==
    [][(ResolverTests /\ ParseURL(givenUrl).ok) =>
        (rpc' = "awaitProbe" <=> extractShareToken(ParseURL(givenUrl).pathname) # NoString)]_vars

\* The token the stated rule finds in the segments: the last one when there are at
\* least four, the first is r and the second-to-last is s; none otherwise.
StatedToken(segments) ==
    IF IsShareShaped(segments) THEN Some(segments[Len(segments)]) ELSE NoString

\* C15: extractShareToken finds a token exactly when the pathname has at least four
\* non-empty segments of which the first is r and the second-to-last is s, whatever
\* the others are; the token is the last segment.
C15_TokenBySecondToLastS ==
    ParseURL(givenUrl).ok =>
        extractShareToken(ParseURL(givenUrl).pathname)
            = StatedToken(Segments(ParseURL(givenUrl).pathname))

----------------------------------------------------------------------------
(* The lifetime a cached credential needs to be reused *)

\* The early-refresh margin and the reuse margin together, in seconds.
MinReusableLifetime == EarlyRefreshSeconds + ReuseMarginMs \div MsPerSecond

\* The cached credential was assigned from a response whose expires_in is absent
\* or at most the two margins.
ShortLived ==
    /\ cachedAccessToken # Null
    /\ cachedJson # Null
    /\ ExpiresIn(cachedJson) <= MinReusableLifetime

\* Caller p's call returns the cached credential in its first step.
ServedFromCache(p) == Starts(p) /\ pc'[p] = "done" /\ outcome'[p].kind = "return"

\* C16: a call is served from the cache only when the cached credential was
\* assigned from a response reporting more than 120 seconds; with a cached
\* credential from a response reporting 120 seconds or less, or no lifetime, a call
\* (the secrets being configured) issues a token request, at whatever time it
\* starts.
C16_ShortLifetimeNeverReused ==
    [][\A p \in Callers :
        /\ ServedFromCache(p) =>
            /\ cachedJson # Null
            /\ ExpiresIn(cachedJson) > MinReusableLifetime
            /\ outcome'[p].token = cachedJson.access_token[1]
        /\ (Starts(p) /\ Configured /\ ShortLived) =>
            /\ pc'[p] = "awaitFetch"
            /\ requests'[p] = requests[p] + 1]_vars

\* The cached credential comes from a response reporting exactly 120 seconds, and
\* a call that started in the very millisecond the refreshing call had started in
\* (the stored expiry is its start plus 60 seconds) has issued a token request.
C16_Witness ==
    \E p \in Callers :
        /\ ShortLived
        /\ ExpiresIn(cachedJson) = MinReusableLifetime
        /\ pc[p] = "awaitFetch"
        /\ requests[p] = 1
        /\ ~changed[p]
        /\ now[p] = clock
        /\ cachedAccessToken.expiresAt = now[p] + ReuseMarginMs
        /\ \A q \in Callers \ {p} : pc[q] = "idle"

====
